---------------------------- MODULE Spec2Model ----------------------------
(***************************************************************************)
(* AuroraLedger: the payload validator (payload_validator.py), the record  *)
(* store of the ledger (auroralogger.py) and the plan journal              *)
(* (planner.py), as state machines over the two directories they write.    *)
(*                                                                         *)
(* Python values are tagged records [kind, v]; kind is the value's Python  *)
(* type.  "num" stands for an int or a float that is not a bool (amounts   *)
(* are drawn from integers, which float() and float addition represent     *)
(* exactly); "bool" is Python's bool, a subclass of int.  A dict is a      *)
(* function from its keys to tagged values.                                *)
(***************************************************************************)
EXTENDS Integers, Sequences, FiniteSets, TLC

VARIABLES
    payload,            \* the mapping handed to validate_payload
    outcome,            \* what that call did: pending, returned or raised
    record_dir_exists,  \* whether AuroraLedger.record_dir exists on disk
    records,            \* record_dir: file name -> file text
    ret,                \* what the last ledger call returned or raised
    persisted,          \* history: id -> payload of the last successful dump_record
    ndumps,             \* history: number of successful dump_record calls
    plans,              \* PlanBook.plans_dir: file name -> file text
    plan_ret,           \* what the last add_entry call returned
    nentries            \* history: number of add_entry calls

vars == <<payload, outcome, record_dir_exists, records, ret, persisted,
          ndumps, plans, plan_ret, nentries>>

validator_vars == <<payload, outcome>>
ledger_vars == <<record_dir_exists, records, ret, persisted, ndumps>>
planner_vars == <<plans, plan_ret, nentries>>

(***************************************************************************)
(* Bounds.                                                                 *)
(***************************************************************************)
MaxAmount == 1      \* numeric amounts range over -1 .. MaxAmount
MaxDumps == 3       \* successful dump_record calls in one behaviour
MaxEntries == 3     \* add_entry calls in one behaviour
PlanIdSpan == 1     \* _sample_id draws from PLAN_ID_MIN .. PLAN_ID_MIN + PlanIdSpan

(***************************************************************************)
(* Python values.                                                          *)
(***************************************************************************)
Str(s) == [kind |-> "str", v |-> s]
Num(n) == [kind |-> "num", v |-> n]
Bool(b) == [kind |-> "bool", v |-> IF b THEN 1 ELSE 0]
None == [kind |-> "NoneType", v |-> 0]
ListOf(seq) == [kind |-> "list", v |-> seq]
List == ListOf(<<>>)
Dict(f) == [kind |-> "dict", v |-> f]

EmptyDict == [k \in {} |-> None]

\* d[k] = x on a dict
DictSet(d, k, x) == [j \in DOMAIN d \cup {k} |-> IF j = k THEN x ELSE d[j]]

\* d.get(k, default)
DictGet(d, k, default) == IF k \in DOMAIN d THEN d[k] ELSE default

\* sep.join(parts)
RECURSIVE join(_, _)
join(sep, parts) ==
    IF parts = <<>> THEN ""
    ELSE IF Len(parts) = 1 THEN parts[1]
    ELSE parts[1] \o sep \o join(sep, Tail(parts))

\* what a call did
Returns(x) == [exc |-> "none", value |-> x]
Raises(exc, msg) == [exc |-> exc, value |-> Str(msg)]

\* a call of the ledger: the payload it was given (None when it takes none) and
\* what it returned or raised
Call(op, arg, result) == [op |-> op, arg |-> arg, exc |-> result.exc, value |-> result.value]

(***************************************************************************)
(* payload_validator.py                                                    *)
(***************************************************************************)
REQUIRED_FIELDS == <<"id", "timestamp", "network", "op_type", "target", "amount">>

\* isinstance(x, (int, float)): bool is a subclass of int
isinstance_int_float(x) == x.kind \in {"num", "bool"}

\* a validator that stops at the first missing key
missing_fields_first_only(p) ==
    LET missing == SelectSeq(REQUIRED_FIELDS, LAMBDA f : f \notin DOMAIN p)
    IN  IF missing = <<>> THEN missing ELSE <<missing[1]>>

\* the list comprehension of validate_payload
missing_fields(p) == SelectSeq(REQUIRED_FIELDS, LAMBDA f : f \notin DOMAIN p)

\* a validator whose range check is amount <= 0
validate_payload_refuses_zero(p) ==
    LET missing == missing_fields(p)
    IN  IF missing # <<>>
        THEN Raises("ValueError", "Missing payload keys: " \o join(", ", missing))
        ELSE IF ~isinstance_int_float(p["amount"])
        THEN Raises("TypeError", "Payload amount must be numeric.")
        ELSE IF p["amount"].v <= 0
        THEN Raises("ValueError", "Payload amount cannot be negative.")
        ELSE Returns(None)

validate_payload(p) ==
    LET missing == missing_fields(p)
    IN  IF missing # <<>>
        THEN Raises("ValueError", "Missing payload keys: " \o join(", ", missing))
        ELSE IF ~isinstance_int_float(p["amount"])
        THEN Raises("TypeError", "Payload amount must be numeric.")
        ELSE IF p["amount"].v < 0
        THEN Raises("ValueError", "Payload amount cannot be negative.")
        ELSE Returns(None)


(***************************************************************************)
(* The inputs of the model.                                                *)
(***************************************************************************)
Ids == {"a1", "b2"}
OpTypes == {"mint", "swap", "stake"}
Timestamps == {"2022-08-26T18:47:33Z"}
Priorities == {"low", "medium", "high"}
NumAmounts == {Num(n) : n \in -1 .. MaxAmount}
OddAmounts == {Bool(TRUE), Bool(FALSE), Str("1"), Str("ten"), None, List, Dict(EmptyDict)}
AmountValues == NumAmounts \cup OddAmounts

RequiredSet == {REQUIRED_FIELDS[i] : i \in DOMAIN REQUIRED_FIELDS}

\* the payload of the unit test's _sample_payload, with the id, op_type and amount given
sample_payload(id, op_type, amount) ==
    [f \in RequiredSet |->
        CASE f = "id" -> Str(id)
          [] f = "timestamp" -> Str("2022-08-26T18:47:33Z")
          [] f = "network" -> Str("testnet")
          [] f = "op_type" -> Str(op_type)
          [] f = "target" -> Str("0xabc")
          [] f = "amount" -> amount]

\* payload.pop(f) for every f outside keep
Restrict(p, keep) == [f \in DOMAIN p \cap keep |-> p[f]]

FullPayloads == {sample_payload(i, o, a) : i \in Ids, o \in OpTypes, a \in AmountValues}
PayloadInputs == {Restrict(p, keep) : p \in FullPayloads, keep \in SUBSET RequiredSet}

(***************************************************************************)
(* auroralogger.py: AuroraLedger.create_payload.  token, now and priority  *)
(* are what secrets.token_hex, datetime.utcnow and random.choice gave.     *)
(***************************************************************************)
self_network == "testnet"
self_rpc_endpoint == "https://rpc.testnet.zetainfra.example"

create_payload(op_type, target, amount, note, metadata, token, now, priority) ==
    [f \in RequiredSet \cup {"note", "metadata", "simulation"} |->
        CASE f = "id" -> Str(token)
          [] f = "timestamp" -> Str(now)
          [] f = "network" -> Str(self_network)
          [] f = "op_type" -> op_type
          [] f = "target" -> target
          [] f = "amount" -> amount
          [] f = "note" -> note
          [] f = "metadata" -> IF metadata = None THEN Dict(EmptyDict) ELSE metadata
          [] f = "simulation" ->
                Dict([k \in {"rpc", "priority"} |->
                        IF k = "rpc" THEN Str(self_rpc_endpoint) ELSE Str(priority)])]

(***************************************************************************)
(* The validator on its own: a payload is chosen or built, then validated. *)
(***************************************************************************)
Pending == [exc |-> "pending", value |-> None]

InitLedger ==
    /\ record_dir_exists \in BOOLEAN
    /\ records = EmptyDict
    /\ ret = Call("__init__", None, Returns(None))
    /\ persisted = EmptyDict
    /\ ndumps = 0

InitPlanner ==
    /\ plans = EmptyDict
    /\ plan_ret = None
    /\ nentries = 0

InitValidator ==
    /\ payload \in PayloadInputs
    /\ outcome = Pending
    /\ InitLedger
    /\ InitPlanner

\* a caller builds a payload with create_payload
build ==
    /\ \E op \in OpTypes, a \in AmountValues, token \in Ids,
          now \in Timestamps, priority \in Priorities :
            payload' = create_payload(Str(op), Str("0xabc"), a, Str(""), None,
                                      token, now, priority)
    /\ outcome' = Pending
    /\ UNCHANGED <<ledger_vars, planner_vars>>

\* validate_payload(payload)
validate ==
    /\ outcome = Pending
    /\ outcome' = validate_payload(payload)
    /\ UNCHANGED <<payload, ledger_vars, planner_vars>>

NextValidator == build \/ validate

SpecValidator == InitValidator /\ [][NextValidator]_vars

(***************************************************************************)
(* Files.  A file's text is JSON that json.dumps wrote (the value it       *)
(* holds) or text that is not JSON.  The names a directory can hold are    *)
(* listed in the order sorted() gives them.                                *)
(***************************************************************************)
json_dumps(obj) == [kind |-> "json", v |-> obj]
NotJson == [kind |-> "text", v |-> Str("{not json")]

\* json.loads(text): JSONDecodeError is a ValueError
json_loads(text) ==
    IF text.kind = "json" THEN Returns(text.v)
    ELSE Raises("ValueError", "Expecting property name enclosed in double quotes")

FileNames == <<"a1.json", "b2.json", "notes.txt", "zz.json">>
JsonNames == {"a1.json", "b2.json", "zz.json"}

\* record_dir.glob("*.json")
glob_json(dir) == {n \in DOMAIN dir : n \in JsonNames}

\* sorted(names)
sorted(names) == SelectSeq(FileNames, LAMBDA n : n \in names)

(***************************************************************************)
(* auroralogger.py: the record store.                                      *)
(***************************************************************************)
\* self.record_dir.mkdir(exist_ok=True)
ensure_record_dir == record_dir_exists' = TRUE

\* the wrapper dump_record serialises
payload_record(p, plan, now) ==
    Dict([k \in {"payload", "plan", "capture_time"} |->
            CASE k = "payload" -> Dict(p)
              [] k = "plan" -> plan
              [] k = "capture_time" -> Str(now)])

\* a store that names the file from the payload's network
record_name_from_network(p) == p["network"].v \o ".json"

\* f"{payload['id']}.json"
record_name(p) == p["id"].v \o ".json"

\* a store that makes the records directory before it validates
dump_record_mkdir_first(p, plan, now) ==
    LET checked == validate_payload(p)
    IN  IF checked.exc # "none"
        THEN /\ ret' = Call("dump_record", Dict(p), checked)
             /\ record_dir_exists' = TRUE
             /\ UNCHANGED <<records, persisted, ndumps>>
        ELSE /\ ndumps < MaxDumps
             /\ record_dir_exists' = TRUE
             /\ records' = DictSet(records, record_name(p),
                                   json_dumps(payload_record(p, plan, now)))
             /\ ret' = Call("dump_record", Dict(p),
                         Returns(Str("records/" \o record_name(p))))
             /\ persisted' = DictSet(persisted, p["id"].v, p)
             /\ ndumps' = ndumps + 1

dump_record(p, plan, now) ==
    LET checked == validate_payload(p)
    IN  IF checked.exc # "none"
        THEN /\ ret' = Call("dump_record", Dict(p), checked)
             /\ UNCHANGED <<record_dir_exists, records, persisted, ndumps>>
        ELSE /\ ndumps < MaxDumps
             /\ ensure_record_dir
             /\ records' = DictSet(records, record_name(p),
                                   json_dumps(payload_record(p, plan, now)))
             /\ ret' = Call("dump_record", Dict(p),
                         Returns(Str("records/" \o record_name(p))))
             /\ persisted' = DictSet(persisted, p["id"].v, p)
             /\ ndumps' = ndumps + 1

list_records ==
    /\ ensure_record_dir
    /\ ret' = Call("list_records", None, Returns(sorted(glob_json(records))))
    /\ UNCHANGED <<records, persisted, ndumps>>

NUMERALS == [s \in {"0", "1", "2"} |-> CASE s = "0" -> 0 [] s = "1" -> 1 [] s = "2" -> 2]

\* float(x)
py_float(x) ==
    CASE x.kind \in {"num", "bool"} -> Returns(x.v)
      [] x.kind = "str" ->
            IF x.v \in DOMAIN NUMERALS THEN Returns(NUMERALS[x.v])
            ELSE Raises("ValueError", "could not convert string to float")
      [] OTHER -> Raises("TypeError", "float() argument must be a string or a real number")

hashable(x) == x.kind \notin {"list", "dict"}

\* a summary that assigns where the code adds
accumulate_assigns(acc, op, amount) ==
    [acc EXCEPT !.op_counts = DictSet(acc.op_counts, op, 1),
                !.total_amount = amount]

\* op_counts[op] = op_counts.get(op, 0) + 1; total_amount += amount
accumulate(acc, op, amount) ==
    [acc EXCEPT !.op_counts = DictSet(acc.op_counts, op, DictGet(acc.op_counts, op, 0) + 1),
                !.total_amount = acc.total_amount + amount]

\* one pass of the loop of summarize_records over the file `name`; acc is
\* [exc, value, op_counts, total_amount], and an exception that is not caught ends the loop
summarize_one(dir, gone, name, acc) ==
    IF name \in gone THEN acc                       \* FileNotFoundError: continue
    ELSE LET loaded == json_loads(dir[name])
         IN  IF loaded.exc # "none" THEN acc        \* ValueError: continue
             ELSE LET data == loaded.value
                  IN  IF data.kind # "dict"
                      THEN [acc EXCEPT !.exc = "AttributeError",
                                       !.value = Str("object has no attribute 'get'")]
                      ELSE LET pl == DictGet(data.v, "payload", Dict(EmptyDict))
                           IN  IF pl.kind # "dict"
                               THEN [acc EXCEPT !.exc = "AttributeError",
                                                !.value = Str("object has no attribute 'get'")]
                               ELSE LET op == DictGet(pl.v, "op_type", Str("unknown"))
                                        amount == py_float(DictGet(pl.v, "amount", Num(0)))
                                    IN  IF amount.exc = "ValueError" THEN acc   \* continue
                                        ELSE IF amount.exc # "none"
                                        THEN [acc EXCEPT !.exc = amount.exc,
                                                         !.value = amount.value]
                                        ELSE IF ~hashable(op)
                                        THEN [acc EXCEPT !.exc = "TypeError",
                                                         !.value = Str("unhashable type")]
                                        ELSE accumulate(acc, op, amount.value)

RECURSIVE summarize_loop(_, _, _, _)
summarize_loop(dir, gone, names, acc) ==
    IF names = <<>> \/ acc.exc # "none" THEN acc
    ELSE summarize_loop(dir, gone, Tail(names), summarize_one(dir, gone, Head(names), acc))

\* summarize_records, with the files of `gone` deleted from outside between the
\* listing and the reads
summarize_records(gone) ==
    LET listed == sorted(glob_json(records))
        acc == summarize_loop(records, gone, listed,
                              [exc |-> "none", value |-> None,
                               op_counts |-> EmptyDict, total_amount |-> 0])
    IN  /\ gone \subseteq glob_json(records)
        /\ ensure_record_dir
        /\ records' = [n \in DOMAIN records \ gone |-> records[n]]
        /\ ret' = IF acc.exc # "none"
                  THEN Call("summarize_records", None, [exc |-> acc.exc, value |-> acc.value])
                  ELSE Call("summarize_records", None,
                            Returns([count |-> Len(listed),
                                     total_amount |-> acc.total_amount,
                                     ops |-> acc.op_counts]))
        /\ UNCHANGED <<persisted, ndumps>>

(***************************************************************************)
(* The ledger on a directory only it writes: Spec.                         *)
(***************************************************************************)
Plans == {None, Str("ship the faucet")}
AcceptedAmounts == {a \in NumAmounts : a.v >= 0} \cup {Bool(TRUE)}
RefusedAmounts == {Num(-1), Str("ten"), None}

built(op, amount, token) ==
    create_payload(Str(op), Str("0xabc"), amount, Str(""), None, token,
                   "2022-08-26T18:47:33Z", "low")

\* the payloads handed to dump_record: built by create_payload, some with an
\* amount the validator refuses, some with one required key removed
BuiltPayloads == {built(op, a, token) : op \in OpTypes, a \in AcceptedAmounts, token \in Ids}
RefusedPayloads ==
    {built("mint", a, token) : a \in RefusedAmounts, token \in Ids}
    \cup {Restrict(built("mint", Num(1), "a1"), DOMAIN built("mint", Num(1), "a1") \ {f}) :
            f \in RequiredSet}
    \cup {Restrict(built("swap", Str("ten"), "b2"), {"id", "amount", "note"})}
DumpInputs == BuiltPayloads \cup RefusedPayloads

Init ==
    /\ payload = EmptyDict
    /\ outcome = Pending
    /\ InitLedger
    /\ InitPlanner

Dump ==
    /\ \E p \in DumpInputs, plan \in Plans, now \in Timestamps : dump_record(p, plan, now)
    /\ UNCHANGED <<validator_vars, planner_vars>>

ListRecords == list_records /\ UNCHANGED <<validator_vars, planner_vars>>

Summarize == summarize_records({}) /\ UNCHANGED <<validator_vars, planner_vars>>

Next == Dump \/ ListRecords \/ Summarize

Spec == Init /\ [][Next]_vars

(***************************************************************************)
(* The ledger on a directory that earlier runs and other programs wrote    *)
(* to, and that loses files while summarize_records reads it:              *)
(* SpecDirectory.                                                          *)
(***************************************************************************)
ForeignTexts ==
    { NotJson,
      json_dumps(List),
      json_dumps(Dict([k \in {"payload"} |-> Str("mint 1")])),
      json_dumps(Dict([k \in {"plan"} |-> None])),
      json_dumps(Dict([k \in {"payload"} |-> Dict([f \in {"amount"} |-> None])])),
      json_dumps(Dict([k \in {"payload"} |-> Dict([f \in {"amount"} |-> Str("ten")])])),
      json_dumps(Dict([k \in {"payload"} |-> Dict([f \in {"amount"} |-> Str("2")])])),
      json_dumps(Dict([k \in {"payload"} |-> Dict([f \in {"op_type"} |-> List])])) }

\* what dump_record wrote to `name` in an earlier run
DumpedTexts(name) ==
    {json_dumps(payload_record(p, None, "2022-08-26T18:47:33Z")) :
        p \in {q \in BuiltPayloads :
                /\ record_name(q) = name
                /\ q["op_type"].v \in {"mint", "swap"}
                /\ q["amount"] \in {Num(1), Bool(TRUE)}}}

TextsOf(name) ==
    IF name \notin JsonNames THEN {NotJson}
    ELSE ForeignTexts \cup DumpedTexts(name)

\* a name's slot: one of its texts, or no file of that name
Absent == [kind |-> "absent", v |-> None]
Slot(name) == TextsOf(name) \cup {Absent}
DirOf(slots) ==
    [n \in {FileNames[i] : i \in {j \in DOMAIN FileNames : slots[j] # Absent}} |->
        slots[CHOOSE i \in DOMAIN FileNames : FileNames[i] = n]]

Directories ==
    {DirOf(<<a, b, c, d>>) :
        a \in Slot(FileNames[1]), b \in Slot(FileNames[2]),
        c \in Slot(FileNames[3]), d \in Slot(FileNames[4])}

InitDirectory ==
    /\ payload = EmptyDict
    /\ outcome = Pending
    /\ records \in Directories
    /\ record_dir_exists = TRUE
    /\ ret = Call("__init__", None, Returns(None))
    /\ persisted = EmptyDict
    /\ ndumps = 0
    /\ InitPlanner

SummarizeRace ==
    /\ \E gone \in SUBSET glob_json(records) : summarize_records(gone)
    /\ UNCHANGED <<validator_vars, planner_vars>>

NextDirectory == SummarizeRace \/ ListRecords

SpecDirectory == InitDirectory /\ [][NextDirectory]_vars

(***************************************************************************)
(* planner.py: the plan journal, SpecPlanner.                              *)
(***************************************************************************)
PLAN_ID_MIN == 10000
PLAN_ID_MAX == 99999

\* the values random.randint(10_000, 99_999) is drawn from in the model
PlanNumbers == {n \in PLAN_ID_MIN .. PLAN_ID_MIN + PlanIdSpan : n <= PLAN_ID_MAX}

\* PlanBook._sample_id, n being what random.randint gave
sample_id(n) == "plan-" \o ToString(n)

\* tags or []
tags_or_empty(tags) == IF tags = None \/ tags = List THEN List ELSE tags

\* PlanEntry(...).__dict__
PlanEntry(id, note, urgency, tags, created_at) ==
    Dict([f \in {"id", "note", "urgency", "tags", "created_at"} |->
            CASE f = "id" -> Str(id)
              [] f = "note" -> Str(note)
              [] f = "urgency" -> Str(urgency)
              [] f = "tags" -> tags
              [] f = "created_at" -> Str(created_at)])

add_entry(note, urgency, tags, n, now) ==
    LET metadata == Dict([k \in {"urgency", "tags"} |->
                            IF k = "urgency" THEN Str(urgency)
                            ELSE Str(join(", ", tags_or_empty(tags).v))])
        entry == PlanEntry(sample_id(n), note, urgency, tags_or_empty(tags), now)
        entry_payload == Dict([k \in {"entry", "metadata", "logged_at"} |->
                            CASE k = "entry" -> entry
                              [] k = "metadata" -> metadata
                              [] k = "logged_at" -> Str(now)])
        store_path == entry.v["id"].v \o ".json"
    IN  /\ nentries < MaxEntries
        /\ plans' = DictSet(plans, store_path, json_dumps(entry_payload))
        /\ plan_ret' = Returns(Str("plans/" \o store_path))
        /\ nentries' = nentries + 1

Notes == {"write tests", "deploy"}
Urgencies == {"low", "medium", "high"}
TagLists == {None, ListOf(<<"infra">>), ListOf(<<"infra", "urgent">>)}

AddEntry ==
    /\ \E note \in Notes, urgency \in Urgencies, tags \in TagLists,
          n \in PlanNumbers, now \in Timestamps :
            add_entry(note, urgency, tags, n, now)
    /\ UNCHANGED <<validator_vars, ledger_vars>>

NextPlanner == AddEntry

SpecPlanner == Init /\ [][NextPlanner]_vars

(***************************************************************************)
(* Claims about validate_payload, checked under SpecValidator.             *)
(***************************************************************************)
\* the required fields in the order the specification enumerates them
ClaimOrder == <<"id", "timestamp", "network", "op_type", "target", "amount">>
ClaimFields == {ClaimOrder[i] : i \in DOMAIN ClaimOrder}
Position(f) == CHOOSE i \in DOMAIN ClaimOrder : ClaimOrder[i] = f

AbsentRequired(p) == {f \in ClaimFields : f \notin DOMAIN p}

\* the one enumeration of the fields S, each once, in the order of ClaimOrder
InClaimOrder(S) ==
    CHOOSE s \in [1 .. Cardinality(S) -> S] :
        /\ {s[i] : i \in DOMAIN s} = S
        /\ \A i, j \in DOMAIN s : i < j => Position(s[i]) < Position(s[j])

Validated == outcome # Pending

\* C1: a payload lacking required fields is refused with the missing-field error,
\* whose list is exactly the absent required fields, each once, in the fixed order,
\* whatever the amount is when it is present.
C1_MissingFieldsReported ==
    (Validated /\ AbsentRequired(payload) # {}) =>
        outcome = Raises("ValueError",
                         "Missing payload keys: "
                            \o join(", ", InClaimOrder(AbsentRequired(payload))))

C1_Witness ==
    /\ Validated
    /\ AbsentRequired(payload) = {"timestamp", "target"}
    /\ payload["amount"] = Str("ten")
    /\ outcome = Raises("ValueError", "Missing payload keys: timestamp, target")

\* C2: a payload with all six required fields and an amount that is not a number
\* (a string, null, a boolean, a list, a mapping) is refused with the type error.
C2_NonNumericAmountRefused ==
    (Validated /\ AbsentRequired(payload) = {} /\ payload["amount"].kind # "num") =>
        outcome = Raises("TypeError", "Payload amount must be numeric.")

\* C3: with all six required fields and a numeric amount, validate_payload raises the
\* range error exactly when amount < 0; otherwise it returns and changes nothing.
C3_RangeCheck ==
    [][(/\ outcome = Pending
        /\ outcome' # Pending
        /\ AbsentRequired(payload) = {}
        /\ payload["amount"].kind = "num")
       => /\ payload["amount"].v < 0 <=>
                outcome' = Raises("ValueError", "Payload amount cannot be negative.")
          /\ payload["amount"].v >= 0 =>
                /\ outcome' = Returns(None)
                /\ payload' = payload
                /\ UNCHANGED <<ledger_vars, planner_vars>>]_vars

C3_Witness ==
    /\ outcome = Returns(None)
    /\ AbsentRequired(payload) = {}
    /\ payload["amount"] = Num(0)

(***************************************************************************)
(* Claims about the record store, checked under Spec.                      *)
(***************************************************************************)
\* C4: a dump_record call whose payload fails validation raises that failure and
\* leaves the records directory as it was: no file made, changed or half written,
\* and no directory made.
C4_RefusedDumpWritesNothing ==
    [][(/\ ret'.op = "dump_record"
        /\ validate_payload(ret'.arg.v).exc # "none")
       => /\ ret'.exc = validate_payload(ret'.arg.v).exc
          /\ ret'.value = validate_payload(ret'.arg.v).value
          /\ records' = records
          /\ record_dir_exists' = record_dir_exists]_vars

C4_Witness ==
    /\ ret.op = "dump_record"
    /\ ret.exc = "TypeError"
    /\ ret.arg.v["id"] = Str("a1")
    /\ DOMAIN records = {"b2.json"}

\* a payload with all six required fields and a numeric, non-negative amount
ClaimValid(p) ==
    /\ ClaimFields \subseteq DOMAIN p
    /\ p["amount"].kind = "num"
    /\ p["amount"].v >= 0

\* the payload a record file holds, when it holds one
HoldsPayload(text) ==
    /\ text.kind = "json"
    /\ text.v.kind = "dict"
    /\ "payload" \in DOMAIN text.v.v
    /\ text.v.v["payload"].kind = "dict"
PayloadOf(text) == text.v.v["payload"].v

\* C5: every record file holds a payload with all six required fields and a
\* numeric, non-negative amount.
C5_StoredPayloadsValid ==
    \A n \in DOMAIN records :
        HoldsPayload(records[n]) /\ ClaimValid(PayloadOf(records[n]))

\* C6, as stated: once written, no later operation changes the content of a record
\* file, another dump_record with the same id included.
C6_NeverUpdated ==
    [][\A n \in DOMAIN records : n \in DOMAIN records' /\ records'[n] = records[n]]_vars

\* C6, amended: a record file stays and changes only by a later successful
\* dump_record call whose payload carries the id the file is named from, which
\* replaces the file with the record of that call.
C6_UpdatedOnlyBySameId ==
    [][\A n \in DOMAIN records :
        /\ n \in DOMAIN records'
        /\ records'[n] # records[n] =>
            /\ ret'.op = "dump_record"
            /\ ret'.exc = "none"
            /\ ret'.arg.v["id"].v \o ".json" = n
            /\ HoldsPayload(records'[n])
            /\ PayloadOf(records'[n]) = ret'.arg.v]_vars

C6_Witness ==
    /\ ndumps = 2
    /\ DOMAIN records = {"a1.json"}
    /\ ret.op = "dump_record"
    /\ ret.exc = "none"
    /\ records["a1.json"].v.v["plan"] # None
    /\ PayloadOf(records["a1.json"])["amount"] = Num(0)

RECURSIVE SumOf(_, _)
SumOf(f, S) ==
    IF S = {} THEN 0
    ELSE LET x == CHOOSE y \in S : TRUE IN f[x] + SumOf(f, S \ {x})

\* C8: after N payloads with pairwise distinct ids were persisted into an empty
\* directory, summarize_records returns count N, the sum of their amounts, and per
\* op_type the number of them that carry it.
C8_SummaryOfPersisted ==
    (/\ ret.op = "summarize_records"
     /\ Cardinality(DOMAIN persisted) = ndumps) =>
        LET amounts == [i \in DOMAIN persisted |-> persisted[i]["amount"].v]
            opsSeen == {persisted[i]["op_type"] : i \in DOMAIN persisted}
        IN  /\ ret.exc = "none"
            /\ ret.value.count = ndumps
            /\ ret.value.total_amount = SumOf(amounts, DOMAIN persisted)
            /\ DOMAIN ret.value.ops = opsSeen
            /\ \A o \in opsSeen :
                ret.value.ops[o] =
                    Cardinality({i \in DOMAIN persisted : persisted[i]["op_type"] = o})

C8_Witness ==
    /\ ret.op = "summarize_records"
    /\ ndumps = 2
    /\ DOMAIN persisted = {"a1", "b2"}
    /\ ret.value.count = 2
    /\ ret.value.total_amount = 1
    /\ ret.value.ops = [o \in {Str("swap")} |-> 2]

(***************************************************************************)
(* Claims about summarize_records on any directory, checked under          *)
(* SpecDirectory.                                                          *)
(***************************************************************************)
\* a file summarize_records reads as a record: JSON holding a valid payload
ReadableRecord(text) == HoldsPayload(text) /\ ClaimValid(PayloadOf(text))

\* C7: files that are not JSON, or that vanish before they are read, are left out
\* of every output: count is the number of readable records, total_amount their
\* sum, and the per-op counts add up to that number.
C7_SkippedFilesExcluded ==
    (/\ ret.op = "summarize_records"
     /\ ret.exc = "none"
     /\ \A n \in glob_json(records) : records[n] = NotJson \/ ReadableRecord(records[n])) =>
        LET good == {n \in glob_json(records) : ReadableRecord(records[n])}
            amounts == [n \in good |-> PayloadOf(records[n])["amount"].v]
        IN  /\ ret.value.count = Cardinality(good)
            /\ ret.value.total_amount = SumOf(amounts, good)
            /\ SumOf(ret.value.ops, DOMAIN ret.value.ops) = Cardinality(good)

\* the sums of summarize_records do leave the skipped files out
SkippedFilesLeaveTotals ==
    (/\ ret.op = "summarize_records"
     /\ ret.exc = "none"
     /\ \A n \in glob_json(records) : records[n] = NotJson \/ ReadableRecord(records[n])) =>
        LET good == {n \in glob_json(records) : ReadableRecord(records[n])}
            amounts == [n \in good |-> PayloadOf(records[n])["amount"].v]
        IN  /\ ret.value.total_amount = SumOf(amounts, good)
            /\ SumOf(ret.value.ops, DOMAIN ret.value.ops) = Cardinality(good)

\* C10: summarize_records returns a summary whatever the *.json files hold, and
\* never raises.
C10_SummarizeNeverRaises ==
    ret.op = "summarize_records" => ret.exc = "none"

(***************************************************************************)
(* Claims about the plan journal, checked under SpecPlanner.               *)
(***************************************************************************)
\* C9: every add_entry call adds one new file to the plans directory and leaves
\* every file an earlier call wrote as it was.
C9_OneFilePerEntry ==
    [][nentries' = nentries + 1 =>
        /\ Cardinality(DOMAIN plans') = Cardinality(DOMAIN plans) + 1
        /\ \A n \in DOMAIN plans : n \in DOMAIN plans' /\ plans'[n] = plans[n]]_vars

=============================================================================
